---- MODULE Spec2Model ----
(***************************************************************************)
(* Model of the ConsultationForm component of saas/pages/product.tsx:      *)
(* the React state of the form, the asynchronous handleSubmit handler with *)
(* its suspension points (getToken, fileToBase64, fetchEventSource), the   *)
(* onmessage / onclose / onerror callbacks and the localStorage history.   *)
(*                                                                         *)
(* Text is a sequence of one-character strings, so that trim, slice and    *)
(* concatenation are computed and not assumed.                             *)
(***************************************************************************)
EXTENDS Integers, Sequences, FiniteSets, TLC

\* ------------------------------------------------------------------ bounds
\* number of handleSubmit invocations explored
MaxSubs == 2
\* number of SSE messages delivered to the page, over all its connections
MaxChunks == 2
\* number of connections that are reopened by the retry timer
MaxRetries == 1

\* -------------------------------------------------------- program constants
MAX_HISTORY == 50
MAX_FILE_SIZE == 5 * 1024 * 1024
\* instants are counted in hours; toISOString().slice(0, 10) keeps the UTC day
HoursPerDay == 24

\* ------------------------------------------------------------ input domains
NoDate == -1
NoToken == "null"
NoFile == [size |-> -1, fill |-> 0, type |-> <<>>]
Undefined == <<>>
Def(v) == <<v>>

Names == {<<>>, <<"A">>}
Dates == {23, 24}
NotesTexts == {<<>>, <<" ">>, <<" ", "n">>}
Files == {[size |-> n, fill |-> 255, type |-> <<"application/pdf">>] :
            n \in {MAX_FILE_SIZE, MAX_FILE_SIZE + 1}}
Tokens == {"jwt"}
Chunks == {<<" ">>, <<"a">>}

MsgEmpty == <<"Please enter consultation notes or upload a PDF/image.">>
MsgFileTooLarge == <<"File must be under 5MB.">>
MsgAuth == <<"Authentication required">>

SubIds == 1..MaxSubs

\* ------------------------------------------------------------ text helpers
Min(a, b) == IF a < b THEN a ELSE b

IsSpace(c) == c \in {" ", "\t", "\n"}

RECURSIVE trimStart(_)
trimStart(s) == IF s # <<>> /\ IsSpace(Head(s)) THEN trimStart(Tail(s)) ELSE s

RECURSIVE trimEnd(_)
trimEnd(s) ==
    IF s # <<>> /\ IsSpace(s[Len(s)]) THEN trimEnd(SubSeq(s, 1, Len(s) - 1)) ELSE s

\* String.prototype.trim
trim(s) == trimEnd(trimStart(s))

\* Array.prototype.slice(0, n)
slice0(s, n) == SubSeq(s, 1, Min(n, Len(s)))

\* Date.prototype.toISOString().slice(0, 10): the UTC calendar day of an
\* instant (instants are counted in hours); '' for a null date
isoDate(d) == IF d = NoDate THEN <<>> ELSE <<d \div HoursPerDay>>

\* ------------------------------------------------------------- file encoding
\* A file is size bytes that all equal fill; its base64 text is kept
\* run-length encoded: quads repetitions of the four sextets of a full
\* three-byte group, then the padded group of the remaining bytes (64 is '=').
Sextets(v) == <<v \div 262144, (v \div 4096) % 64, (v \div 64) % 64, v % 64>>

Base64Tail(k, b) ==
    CASE k = 0 -> <<>>
      [] k = 1 -> <<b \div 4, (b % 4) * 16, 64, 64>>
      [] OTHER -> <<b \div 4, (b % 4) * 16 + b \div 16, (b % 16) * 4, 64>>

Base64(f) ==
    [quads |-> f.size \div 3,
     quad  |-> IF f.size \div 3 = 0 THEN <<>>
               ELSE Sextets(f.fill * 65536 + f.fill * 256 + f.fill),
     tail  |-> Base64Tail(f.size % 3, f.fill)]

EmptyText == [quads |-> 0, quad |-> <<>>, tail |-> <<>>]

\* FileReader.readAsDataURL: "data:<type>;base64,<payload>"
readAsDataURL(f) == [head |-> <<"data:">> \o f.type \o <<";base64">>, payload |-> Base64(f)]

\* reader.onload: dataUrl.split(',')[1] || '' and the file's type
fileToBase64(f) ==
    LET dataUrl == readAsDataURL(f)
    IN  [base64 |-> IF dataUrl.payload = EmptyText THEN EmptyText ELSE dataUrl.payload,
         mime   |-> f.type]

\* ------------------------------------------------------------ request body
\* faulty variant: notes: notes || undefined, without trim()
InitialBody_noTrim(name, date, text) ==
    [patient_name  |-> Def(name),
     date_of_visit |-> Def(isoDate(date)),
     notes         |-> IF text = <<>> THEN Undefined ELSE Def(text),
     file_base64   |-> Undefined,
     file_mime     |-> Undefined]

\* the object literal of handleSubmit: notes is undefined when blank
InitialBody(name, date, text) ==
    [patient_name  |-> Def(name),
     date_of_visit |-> Def(isoDate(date)),
     notes         |-> IF trim(text) = <<>> THEN Undefined ELSE Def(trim(text)),
     file_base64   |-> Undefined,
     file_mime     |-> Undefined]

\* body = { ...body, file_base64: base64, file_mime: mime }
WithFile(body, enc) ==
    [body EXCEPT !.file_base64 = Def(enc.base64), !.file_mime = Def(enc.mime)]

\* JSON.stringify drops the keys whose value is undefined
JSONstringify(body) ==
    [k \in {j \in DOMAIN body : body[j] # Undefined} |-> body[k][1]]

\* ------------------------------------------------------------------ history
\* localStorage.getItem(HISTORY_KEY), as the page finds it
StoredEntry(k) ==
    [id |-> 0 - k, patient_name |-> <<"A">>, date_of_visit |-> <<0>>,
     summary |-> <<"a">>, created_at |-> 0]

StoredArray(n) == [kind |-> "array", items |-> [k \in 1..n |-> StoredEntry(k)]]

StoredValues ==
    {[kind |-> "absent", items |-> <<>>],
     [kind |-> "invalid", items |-> <<>>],
     [kind |-> "object", items |-> <<>>]}
    \cup {StoredArray(n) : n \in {MAX_HISTORY - 1, MAX_HISTORY + 1}}

\* faulty variant: the stored array is taken whole
InitialHistory_noSlice(hasWindow, raw) ==
    IF hasWindow /\ raw.kind = "array" THEN raw.items ELSE <<>>

\* the useState initializer of history
InitialHistory(hasWindow, raw) ==
    IF ~hasWindow THEN <<>>
    ELSE IF raw.kind = "invalid" THEN <<>>
    ELSE LET parsed == IF raw.kind = "absent" THEN StoredArray(0) ELSE raw
         IN  IF parsed.kind = "array" THEN slice0(parsed.items, MAX_HISTORY) ELSE <<>>

\* [entry, ...prev].slice(0, MAX_HISTORY)
NextHistory(entry, prev) == slice0(<<entry>> \o prev, MAX_HISTORY)

\* ------------------------------------------------------ handleSubmit helpers
\* faulty variant: the notes are tested without trim()
Validate_noTrim(text, f) ==
    IF text = <<>> /\ f = NoFile THEN "empty"
    ELSE IF f # NoFile /\ f.size > MAX_FILE_SIZE THEN "tooLarge"
    ELSE "ok"

\* faulty variant: the size test is >= instead of >
Validate_inclusive(text, f) ==
    IF trim(text) = <<>> /\ f = NoFile THEN "empty"
    ELSE IF f # NoFile /\ f.size >= MAX_FILE_SIZE THEN "tooLarge"
    ELSE "ok"

\* the two local validations, in the order of the code
Validate(text, f) ==
    IF trim(text) = <<>> /\ f = NoFile THEN "empty"
    ELSE IF f # NoFile /\ f.size > MAX_FILE_SIZE THEN "tooLarge"
    ELSE "ok"

\* faulty variant: the token is not tested
HasToken_always(jwt) == TRUE

\* if (!jwt)
HasToken(jwt) == jwt # NoToken /\ jwt # ""

\* faulty variant: the chunk is put in front of the buffer
appendData_prepend(buffer, data) == data \o buffer

\* faulty variant: buffer = ev.data, the chunk replaces the buffer
appendData_replace(buffer, data) == data

\* buffer += ev.data
appendData(buffer, data) == buffer \o data

\* faulty variant: if (buffer), without trim()
HasContent_noTrim(buffer) == buffer # <<>>

\* if (buffer.trim())
HasContent(buffer) == trim(buffer) # <<>>

\* ------------------------------------------------------------------- state
VARIABLES
    hasWindow,      \* typeof window !== 'undefined'
    localStorage,   \* the value stored under HISTORY_KEY
    patientName, visitDate, notes, file, fileError,   \* form state
    output, loading,                                 \* streaming state
    history,        \* past summaries, newest first
    sub,            \* the invocations of handleSubmit, with their closures
    sent,           \* the HTTP requests the page has started, by endpoint
    delivered,      \* the chunks delivered so far, in order of arrival
    nextId,         \* the identifiers crypto.randomUUID() has handed out
    now             \* the clock read by new Date()

vars == <<hasWindow, localStorage, patientName, visitDate, notes, file, fileError,
          output, loading, history, sub, sent, delivered, nextId, now>>

form == <<patientName, visitDate, notes, file>>

NoRequest == [url |-> "", method |-> "", authorization |-> <<>>, body |-> <<>>]

\* an invocation that has not started. wrote (the identifiers of the entries
\* it has written) and ended (how its streams have ended so far) are
\* history variables.
IdleSub ==
    [pc |-> "idle", patientName |-> <<>>, visitDate |-> NoDate, notes |-> <<>>,
     file |-> NoFile, jwt |-> NoToken, body |-> InitialBody(<<>>, NoDate, <<>>),
     request |-> NoRequest, aborted |-> FALSE, buffer |-> <<>>,
     wrote |-> <<>>, ended |-> <<>>]

\* handleSubmit has returned and no callback of it can run any more: its
\* closure is unreachable, only the history variables are kept
Returned(r, pc) == [IdleSub EXCEPT !.pc = pc, !.wrote = r.wrote, !.ended = r.ended]

Init ==
    /\ hasWindow \in BOOLEAN
    /\ localStorage \in StoredValues
    /\ patientName = <<>>
    /\ visitDate \in Dates
    /\ notes = <<>>
    /\ file = NoFile
    /\ fileError = <<>>
    /\ output = <<>>
    /\ loading = FALSE
    /\ history = InitialHistory(hasWindow, localStorage)
    /\ sub = [s \in SubIds |-> IdleSub]
    /\ sent = {}
    /\ delivered = <<>>
    /\ nextId = 1
    /\ now = 1

\* --------------------------------------------------------------- form input
setPatientName(v) ==
    /\ hasWindow
    /\ patientName' = v
    /\ UNCHANGED <<hasWindow, localStorage, visitDate, notes, file, fileError,
                   output, loading, history, sub, sent, delivered, nextId, now>>

setVisitDate(d) ==
    /\ hasWindow
    /\ visitDate' = d
    /\ UNCHANGED <<hasWindow, localStorage, patientName, notes, file, fileError,
                   output, loading, history, sub, sent, delivered, nextId, now>>

setNotes(v) ==
    /\ hasWindow
    /\ notes' = v
    /\ UNCHANGED <<hasWindow, localStorage, patientName, visitDate, file, fileError,
                   output, loading, history, sub, sent, delivered, nextId, now>>

\* the file input's onChange: setFile(...); setFileError('')
onFileChange(f) ==
    /\ hasWindow
    /\ file' = f
    /\ fileError' = <<>>
    /\ UNCHANGED <<hasWindow, localStorage, patientName, visitDate, notes,
                   output, loading, history, sub, sent, delivered, nextId, now>>

\* faulty variant: the entry clicked is also moved to the head of the list
viewEntry_promote(i) ==
    /\ hasWindow
    /\ i \in 1..Len(history)
    /\ output' = history[i].summary
    /\ history' = <<history[i]>> \o SubSeq(history, 1, i - 1)
                                  \o SubSeq(history, i + 1, Len(history))
    /\ UNCHANGED <<hasWindow, localStorage, patientName, visitDate, notes, file,
                   fileError, loading, sub, sent, delivered, nextId, now>>

\* a click on the i-th past summary: setOutput(entry.summary)
viewEntry(i) ==
    /\ hasWindow
    /\ i \in 1..Len(history)
    /\ output' = history[i].summary
    /\ UNCHANGED <<hasWindow, localStorage, patientName, visitDate, notes, file,
                   fileError, loading, history, sub, sent, delivered, nextId, now>>

\* the past summaries whose click is explored: the first entry of each
\* summary text, as a click on an entry has the effect of its text alone
Clickable ==
    {i \in 1..Len(history) : \A j \in 1..(i - 1) : history[j].summary # history[i].summary}

\* ------------------------------------------------------------- handleSubmit
\* the request fetchEventSource('/api', {...}) sends, on every connection
Request(jwt, body) ==
    [url |-> "/api", method |-> "POST", authorization |-> <<"Bearer ", jwt>>,
     body |-> JSONstringify(body)]

\* one more request to url on behalf of invocation s
Sent(s, url) ==
    sent \cup {[sub |-> s, url |-> url,
                n |-> Cardinality({q \in sent : q.sub = s /\ q.url = url}) + 1]}

\* fetchEventSource(...) is called: the connection is started
Open(r) ==
    [r EXCEPT !.pc = "awaiting", !.request = Request(r.jwt, r.body)]

\* the submit event: lines up to the first await. The submit button is
\* disabled while loading, and the name and date inputs are required.
handleSubmit(s) ==
    /\ hasWindow
    /\ ~loading
    /\ patientName # <<>>
    /\ visitDate # NoDate
    /\ sub[s].pc = "idle"
    /\ \A r \in SubIds : r < s => sub[r].pc # "idle"
    /\ LET v == Validate(notes, file)
       IN  /\ fileError' = IF v = "tooLarge" THEN MsgFileTooLarge ELSE <<>>
           /\ output' = IF v = "empty" THEN MsgEmpty ELSE <<>>
           /\ loading' = (v = "ok")
           /\ sub' = [sub EXCEPT ![s] =
                        IF v = "ok"
                        THEN [IdleSub EXCEPT !.pc = "getToken",
                                             !.patientName = patientName,
                                             !.visitDate = visitDate,
                                             !.notes = notes,
                                             !.file = file]
                        ELSE Returned(IdleSub, v)]
    /\ UNCHANGED <<hasWindow, localStorage, form, history, sent, delivered, nextId, now>>

\* await getToken() resolves with jwt
getTokenResolved(s, jwt) ==
    /\ sub[s].pc = "getToken"
    /\ IF ~HasToken(jwt)
       THEN /\ output' = MsgAuth
            /\ loading' = FALSE
            /\ sub' = [sub EXCEPT ![s] = Returned(sub[s], "unauthenticated")]
            /\ UNCHANGED sent
       ELSE LET r == [sub[s] EXCEPT
                        !.jwt = jwt,
                        !.body = InitialBody(sub[s].patientName, sub[s].visitDate,
                                             sub[s].notes)]
            IN  /\ UNCHANGED <<output, loading>>
                /\ IF r.file # NoFile
                   THEN /\ sub' = [sub EXCEPT ![s] = [r EXCEPT !.pc = "fileToBase64"]]
                        /\ UNCHANGED sent
                   ELSE /\ sub' = [sub EXCEPT ![s] = Open(r)]
                        /\ sent' = Sent(s, "/api")
    /\ UNCHANGED <<hasWindow, localStorage, form, fileError, history, delivered,
                   nextId, now>>

\* await getToken() rejects: handleSubmit ends with the exception
getTokenRejected(s) ==
    /\ sub[s].pc = "getToken"
    /\ sub' = [sub EXCEPT ![s] = Returned(sub[s], "threw")]
    /\ UNCHANGED <<hasWindow, localStorage, form, fileError, output, loading,
                   history, sent, delivered, nextId, now>>

\* reader.onload: fileToBase64 resolves, the body gets the file, the
\* connection is started
readerOnload(s) ==
    /\ sub[s].pc = "fileToBase64"
    /\ LET r == [sub[s] EXCEPT !.body = WithFile(sub[s].body, fileToBase64(sub[s].file))]
       IN  sub' = [sub EXCEPT ![s] = Open(r)]
    /\ sent' = Sent(s, "/api")
    /\ UNCHANGED <<hasWindow, localStorage, form, fileError, output, loading,
                   history, delivered, nextId, now>>

\* reader.onerror: fileToBase64 rejects, handleSubmit ends with the exception
readerOnerror(s) ==
    /\ sub[s].pc = "fileToBase64"
    /\ sub' = [sub EXCEPT ![s] = Returned(sub[s], "threw")]
    /\ UNCHANGED <<hasWindow, localStorage, form, fileError, output, loading,
                   history, sent, delivered, nextId, now>>

\* --------------------------------------------- fetchEventSource callbacks
Streaming(s) == sub[s].pc \in {"awaiting", "streaming"}

\* onmessage(ev): buffer += ev.data; setOutput(buffer)
onmessage(s, data) ==
    /\ Streaming(s)
    /\ Len(delivered) < MaxChunks
    /\ LET buffer == appendData(sub[s].buffer, data)
       IN  /\ sub' = [sub EXCEPT ![s].pc = "streaming", ![s].buffer = buffer]
           /\ output' = buffer
    /\ delivered' = Append(delivered, [sub |-> s, data |-> data])
    /\ UNCHANGED <<hasWindow, localStorage, form, fileError, loading, history,
                   sent, nextId, now>>

\* faulty variant: the entry is built from the form as it is at the close
Entry_currentForm(r, id, t) ==
    [id |-> id, patient_name |-> patientName,
     date_of_visit |-> isoDate(visitDate), summary |-> r.buffer, created_at |-> t]

\* the HistoryEntry built by onclose from the closure of the invocation
Entry(r, id, t) ==
    [id |-> id, patient_name |-> r.patientName,
     date_of_visit |-> isoDate(r.visitDate), summary |-> r.buffer, created_at |-> t]

\* onclose(): the response ended; the entry is written when the buffer has
\* content; localStorage.setItem may throw, which is swallowed. After it
\* fetchEventSource resolves and handleSubmit returns.
onclose(s) ==
    /\ Streaming(s)
    /\ loading' = FALSE
    /\ IF HasContent(sub[s].buffer)
       THEN \E stored \in BOOLEAN :
              LET entry == Entry(sub[s], nextId, now)
                  next == NextHistory(entry, history)
              IN  /\ history' = next
                  /\ localStorage' = IF stored THEN [kind |-> "array", items |-> next]
                                     ELSE localStorage
                  /\ nextId' = nextId + 1
                  /\ now' = now + 1
                  /\ sub' = [sub EXCEPT ![s] =
                               Returned([sub[s] EXCEPT !.wrote = Append(@, entry.id),
                                                       !.ended = Append(@, "close")],
                                        "closed")]
       ELSE /\ sub' = [sub EXCEPT ![s] =
                         Returned([sub[s] EXCEPT !.ended = Append(@, "close")], "closed")]
            /\ UNCHANGED <<history, localStorage, nextId, now>>
    /\ UNCHANGED <<hasWindow, form, fileError, output, sent, delivered>>

\* faulty variant: onerror without setLoading(false)
onerror_keepsLoading(s) ==
    /\ sub[s].pc \in {"awaiting", "streaming"}
    /\ sub' = [sub EXCEPT ![s].pc = "error", ![s].aborted = TRUE,
                          ![s].ended = Append(@, "error")]
    /\ UNCHANGED <<hasWindow, localStorage, patientName, visitDate, notes, file,
                   fileError, output, loading, history, sent, delivered, nextId, now>>

\* onerror(err): controller.abort(); setLoading(false). The abort resolves
\* fetchEventSource, so handleSubmit returns; but the callback returns
\* normally, which tells fetchEventSource to try again after its retry
\* interval, and the callbacks stay reachable from the retry timer.
onerror(s) ==
    /\ Streaming(s)
    /\ loading' = FALSE
    /\ sub' = [sub EXCEPT ![s].pc = "error", ![s].aborted = TRUE,
                          ![s].ended = Append(@, "error")]
    /\ UNCHANGED <<hasWindow, localStorage, form, fileError, output, history,
                   sent, delivered, nextId, now>>

\* the retry timer set after onerror returned: the same request is sent again
\* and its events go to the same callbacks, hence to the same buffer
retry(s) ==
    /\ sub[s].pc = "error"
    /\ Cardinality({q \in sent : q.n > 1}) < MaxRetries
    /\ sub' = [sub EXCEPT ![s].pc = "awaiting"]
    /\ sent' = Sent(s, sub[s].request.url)
    /\ UNCHANGED <<hasWindow, localStorage, form, fileError, output, loading,
                   history, delivered, nextId, now>>

\* ------------------------------------------------------------ specification
\* the steps of the page, for given sets of form inputs and of invocations
\* of handleSubmit that are started
NextOver(names, dates, texts, files, chunks, subs) ==
    \/ \E v \in names : setPatientName(v)
    \/ \E d \in dates : setVisitDate(d)
    \/ \E v \in texts : setNotes(v)
    \/ \E f \in files : onFileChange(f)
    \/ \E i \in Clickable : viewEntry(i)
    \/ \E s \in subs : handleSubmit(s)
    \/ \E s \in SubIds, jwt \in Tokens \cup {NoToken} : getTokenResolved(s, jwt)
    \/ \E s \in SubIds : getTokenRejected(s)
    \/ \E s \in SubIds : readerOnload(s)
    \/ \E s \in SubIds : readerOnerror(s)
    \/ \E s \in SubIds, data \in chunks : onmessage(s, data)
    \/ \E s \in SubIds : onclose(s)
    \/ \E s \in SubIds : onerror(s)
    \/ \E s \in SubIds : retry(s)

\* one submission after the page is loaded, over all form inputs and all
\* contents of localStorage
Next == NextOver(Names, Dates, NotesTexts, Files \cup {NoFile}, Chunks, {1})

Spec == Init /\ [][Next]_vars

\* successive submissions of typed notes (the next one may start while the
\* retry timer of an earlier one is pending): the user chooses no file and
\* leaves the date of the day, and localStorage starts empty
InitSeq == Init /\ localStorage.kind = "absent" /\ visitDate = 23

NextSeq ==
    \/ \E v \in Names : setPatientName(v)
    \/ \E v \in NotesTexts : setNotes(v)
    \/ \E i \in Clickable : viewEntry(i)
    \/ \E s \in SubIds : handleSubmit(s)
    \/ \E s \in SubIds, jwt \in Tokens \cup {NoToken} : getTokenResolved(s, jwt)
    \/ \E s \in SubIds : getTokenRejected(s)
    \/ \E s \in SubIds, data \in {<<"a">>} : onmessage(s, data)
    \/ \E s \in SubIds : onclose(s)
    \/ \E s \in SubIds : onerror(s)
    \/ \E s \in SubIds : retry(s)

SpecSeq == InitSeq /\ [][NextSeq]_vars

\* ================================================================== claims
\* a text with no character other than white space (the empty text included)
Blank(s) == \A i \in 1..Len(s) : s[i] \in {" ", "\t", "\n"}

\* the chunks delivered to invocation s, concatenated in order of arrival
RECURSIVE Received(_, _)
Received(log, s) ==
    IF log = <<>> THEN <<>>
    ELSE (IF Head(log).sub = s THEN Head(log).data ELSE <<>>) \o Received(Tail(log), s)

\* the steps of invocation s
Submits(s) == sub[s].pc = "idle" /\ sub'[s].pc # "idle"
Closes(s) == sub'[s].ended = Append(sub[s].ended, "close")
Fails(s) == sub'[s].ended = Append(sub[s].ended, "error")
Receives(s) == Len(delivered') = Len(delivered) + 1 /\ delivered'[Len(delivered')].sub = s

\* history' is history with one new entry e at its head, cut to MAX_HISTORY
Pushed(e) ==
    /\ Len(history') = Min(Len(history) + 1, MAX_HISTORY)
    /\ history'[1] = e
    /\ \A i \in 2..Len(history') : history'[i] = history[i - 1]
    /\ \A i \in 1..Len(history) : history[i].id # e.id

\* C1 (as stated): when a stream closes with a non-empty buffer, exactly one
\* entry is added for that submission, at the head of the history, and its
\* summary is the concatenation of the chunks received, in order of arrival.
C1_NonEmptyBufferSaved ==
    [][\A s \in SubIds :
         (Closes(s) /\ sub[s].buffer # <<>>) =>
            /\ Len(history') > 0
            /\ Pushed(history'[1])
            /\ history'[1].summary = Received(delivered, s)
            /\ Len(sub'[s].wrote) = 1
            /\ sub'[s].wrote[1] = history'[1].id]_vars

\* C1 (amended): when a stream closes with a buffer that holds a character
\* other than white space, exactly one entry is added for that submission, at
\* the head of the history, and its summary is the concatenation of the chunks
\* received, in order of arrival.
C1_ContentSaved ==
    [][\A s \in SubIds :
         (Closes(s) /\ ~Blank(sub[s].buffer)) =>
            /\ Len(history') > 0
            /\ Pushed(history'[1])
            /\ history'[1].summary = Received(delivered, s)
            /\ Len(sub'[s].wrote) = 1
            /\ sub'[s].wrote[1] = history'[1].id]_vars

\* a submission was closed after two different chunks and its entry heads the history
C1_Witness ==
    \E s \in SubIds :
        /\ sub[s].pc = "closed"
        /\ Len(sub[s].wrote) = 1
        /\ history # <<>>
        /\ history[1].id = sub[s].wrote[1]
        /\ history[1].summary = <<" ", "a">>

\* C2: a submission closed with content has sent a POST to /api/history, and a
\* failed one has not.
C2_DurableSave ==
    \A s \in SubIds :
        /\ (sub[s].pc = "closed" /\ sub[s].wrote # <<>>) =>
              \E q \in sent : q.sub = s /\ q.url = "/api/history"
        /\ sub[s].pc = "error" =>
              ~ \E q \in sent : q.sub = s /\ q.url = "/api/history"

\* C3: a submission with blank notes and no file returns at once: the message
\* is shown, loading is false, the history is unchanged, no token is asked for
\* and no request is sent, then or later.
C3_EmptyRejected ==
    /\ [][\A s \in SubIds :
            (Submits(s) /\ Blank(notes) /\ file = NoFile) =>
               /\ sub'[s].pc = "empty"
               /\ output' = MsgEmpty
               /\ loading' = FALSE
               /\ history' = history
               /\ sent' = sent]_vars
    /\ [][\A s \in SubIds : sub[s].pc = "empty" => sub'[s] = sub[s]]_vars
    /\ [](\A s \in SubIds : sub[s].pc = "empty" => ~ \E q \in sent : q.sub = s)

\* notes of white space only were submitted and rejected
C3_Witness ==
    \E s \in SubIds :
        sub[s].pc = "empty" /\ notes = <<" ">> /\ output = MsgEmpty /\ ~loading

\* C4: a submission with a file of more than 5 MiB returns at once: fileError
\* is set, loading is false, the history is unchanged, the file is not encoded,
\* no token is asked for and no request is sent; a file of exactly 5 MiB is
\* not rejected.
C4_LargeFileRejected ==
    /\ [][\A s \in SubIds :
            (Submits(s) /\ file # NoFile /\ file.size > 5 * 1024 * 1024) =>
               /\ sub'[s].pc = "tooLarge"
               /\ sub'[s].body.file_base64 = Undefined
               /\ fileError' = MsgFileTooLarge
               /\ loading' = FALSE
               /\ history' = history
               /\ sent' = sent]_vars
    /\ [][\A s \in SubIds :
            (Submits(s) /\ file # NoFile /\ file.size = 5 * 1024 * 1024) =>
               sub'[s].pc = "getToken" /\ loading' /\ fileError' = <<>>]_vars
    /\ [][\A s \in SubIds : sub[s].pc = "tooLarge" => sub'[s] = sub[s]]_vars
    /\ [](\A s \in SubIds : sub[s].pc = "tooLarge" => ~ \E q \in sent : q.sub = s)

\* a file of 5 MiB and one byte was submitted and rejected
C4_Witness ==
    \E s \in SubIds :
        /\ sub[s].pc = "tooLarge"
        /\ file # NoFile
        /\ file.size = MAX_FILE_SIZE + 1
        /\ fileError = MsgFileTooLarge
        /\ ~loading

\* C5: each message appends its chunk to the buffer (the old buffer is a
\* prefix of the new one, which is the concatenation of the chunks received so
\* far) and the output is set to the buffer at every message.
C5_BufferAppendOnly ==
    /\ [][\A s \in SubIds :
            Receives(s) =>
               /\ sub'[s].buffer = sub[s].buffer \o delivered'[Len(delivered')].data
               /\ sub'[s].buffer = Received(delivered', s)
               /\ output' = sub'[s].buffer]_vars
    /\ [][\A s \in SubIds :
            (sub[s].pc \in {"awaiting", "streaming", "error"} /\ sub'[s].pc # "closed") =>
               SubSeq(sub'[s].buffer, 1, Len(sub[s].buffer)) = sub[s].buffer]_vars

\* two different chunks have arrived and are shown
C5_Witness ==
    \E s \in SubIds :
        /\ sub[s].pc = "streaming"
        /\ sub[s].buffer = <<" ", "a">>
        /\ output = sub[s].buffer

\* C6: when a stream fails, the connection is aborted, loading becomes false,
\* no entry is written, the output and the form are left as they were, and
\* whenever an invocation has failed and loading is false, a named form can
\* be submitted again.
C6_ErrorHandled ==
    /\ [][\A s \in SubIds :
            Fails(s) =>
               /\ sub'[s].aborted
               /\ loading' = FALSE
               /\ history' = history
               /\ localStorage' = localStorage
               /\ sub'[s].wrote = sub[s].wrote
               /\ output' = output
               /\ form' = form
               /\ fileError' = fileError]_vars
    /\ [](\A s \in SubIds :
            (/\ sub[s].pc = "error"
             /\ ~loading
             /\ patientName # <<>>
             /\ \E r \in SubIds : sub[r].pc = "idle")
            => ENABLED (\E r \in SubIds : handleSubmit(r)))

\* a stream failed after a chunk had arrived, and the next submission is under way
C6_Witness ==
    \E s, r \in SubIds :
        /\ s # r
        /\ sub[s].pc = "error"
        /\ sub[s].aborted
        /\ sub[s].buffer = <<"a">>
        /\ sub[r].pc = "getToken"

C8_BoundedNewestFirst ==
    /\ [](Len(history) <= 50)
    /\ [][history' # history => (Len(history') > 0 /\ Pushed(history'[1]))]_vars

\* 51 entries were stored; 50 were loaded and a new entry has pushed out the 50th
C8_Witness ==
    /\ Len(history) = 50
    /\ history[1].id > 0
    /\ history[50] = StoredEntry(49)

\* the request of invocation s that is new in this step
Opens(s) == \E q \in sent' \ sent : q.sub = s

\* C9: a connection is opened only for a submission that passed validation
\* and got a token, and its request carries that token as bearer; without a
\* token the invocation returns with the message, loading false, and never
\* sends a request.
C9_TokenBeforeStream ==
    /\ [][\A s \in SubIds :
            Opens(s) =>
               /\ sub'[s].jwt \in Tokens
               /\ sub'[s].request.authorization = <<"Bearer ", sub'[s].jwt>>
               /\ ~(Blank(sub'[s].notes) /\ sub'[s].file = NoFile)
               /\ sub'[s].file = NoFile \/ sub'[s].file.size <= 5 * 1024 * 1024]_vars
    /\ [][\A s \in SubIds :
            (sub[s].pc = "getToken" /\ sub'[s].pc \in {"fileToBase64", "awaiting"}) =>
               sub'[s].jwt \in Tokens]_vars
    /\ [][\A s \in SubIds :
            (sub[s].pc = "getToken" /\ sub'[s].pc = "unauthenticated") =>
               /\ output' = MsgAuth
               /\ loading' = FALSE
               /\ history' = history
               /\ sent' = sent]_vars
    /\ [][\A s \in SubIds : sub[s].pc = "unauthenticated" => sub'[s] = sub[s]]_vars
    /\ [](\A s \in SubIds : sub[s].pc = "unauthenticated" => ~ \E q \in sent : q.sub = s)

\* a connection is open and its request carries the token
C9_Witness ==
    \E s \in SubIds :
        /\ sub[s].pc = "awaiting"
        /\ loading
        /\ sub[s].jwt = "jwt"
        /\ sub[s].request.authorization = <<"Bearer ", "jwt">>
        /\ \E q \in sent : q.sub = s /\ q.url = "/api"

\* C10: no chunk is processed for an invocation that has not passed
\* validation; an invocation is closed or fails at most once; and once it is
\* closed or has failed it receives no chunk and writes no entry.
C10_ClosedIsFinal ==
    /\ [][\A s \in SubIds :
            Receives(s) => ~(Blank(sub[s].notes) /\ sub[s].file = NoFile)]_vars
    /\ [](\A s \in SubIds : Len(sub[s].ended) <= 1)
    /\ [][\A s \in SubIds :
            sub[s].ended # <<>> =>
               /\ ~Receives(s)
               /\ sub'[s].wrote = sub[s].wrote
               /\ sub'[s].ended = sub[s].ended]_vars

\* C11: the entry a close writes has the patient name and the date of visit
\* of the body of the request of that submission, whatever the form holds at
\* the time of the close.
C11_EntryMatchesRequest ==
    [][\A s \in SubIds :
         (Closes(s) /\ history' # history) =>
            /\ sub[s].request.url = "/api"
            /\ history'[1].patient_name = sub[s].request.body.patient_name
            /\ history'[1].date_of_visit = sub[s].request.body.date_of_visit]_vars

\* an entry was written for a submission while the form held another name
\* and another day
C11_Witness ==
    \E s \in SubIds :
        /\ sub[s].pc = "closed"
        /\ Len(sub[s].wrote) = 1
        /\ history # <<>>
        /\ history[1].id = sub[s].wrote[1]
        /\ history[1].patient_name # patientName
        /\ history[1].date_of_visit # isoDate(visitDate)

\* t is the text s without its leading and trailing white space
Trimmed(s, t) ==
    /\ t # <<>> => ~Blank(<<t[1]>>) /\ ~Blank(<<t[Len(t)]>>)
    /\ \E i \in 0..Len(s) :
          /\ i + Len(t) <= Len(s)
          /\ SubSeq(s, i + 1, i + Len(t)) = t
          /\ Blank(SubSeq(s, 1, i))
          /\ Blank(SubSeq(s, i + Len(t) + 1, Len(s)))

\* C12 (as stated): the body of a request for notes that are not blank and no
\* file has the text of the notes as its field notes and has no file fields;
\* the file fields are there exactly when a file was submitted, and the field
\* notes exactly when the notes are not blank.
C12_NotesVerbatim ==
    [][\A s \in SubIds :
         Opens(s) =>
            LET body == sub'[s].request.body
            IN  /\ "notes" \in DOMAIN body <=> ~Blank(sub'[s].notes)
                /\ "file_base64" \in DOMAIN body <=> sub'[s].file # NoFile
                /\ "file_mime" \in DOMAIN body <=> sub'[s].file # NoFile
                /\ (~Blank(sub'[s].notes) /\ sub'[s].file = NoFile) =>
                      body.notes = sub'[s].notes]_vars

\* C12: the body of a request has the field notes exactly when the notes
\* submitted are not blank, and it is their text without the surrounding
\* white space; it has the fields file_base64 and file_mime exactly when a
\* file was submitted; so notes without a file give notes and no file fields,
\* and notes with a file give all three.
C12_BodyFields ==
    [][\A s \in SubIds :
         Opens(s) =>
            LET body == sub'[s].request.body
            IN  /\ {"patient_name", "date_of_visit"} \subseteq DOMAIN body
                /\ "notes" \in DOMAIN body <=> ~Blank(sub'[s].notes)
                /\ "notes" \in DOMAIN body => Trimmed(sub'[s].notes, body.notes)
                /\ "file_base64" \in DOMAIN body <=> sub'[s].file # NoFile
                /\ "file_mime" \in DOMAIN body <=> sub'[s].file # NoFile
                /\ "file_mime" \in DOMAIN body => body.file_mime = sub'[s].file.type]_vars

\* a request for notes without a file is open: its body has the notes and no
\* file fields
C12_Witness ==
    \E s \in SubIds :
        /\ sub[s].pc = "awaiting"
        /\ sub[s].notes = <<" ", "n">>
        /\ sub[s].file = NoFile
        /\ DOMAIN sub[s].request.body = {"patient_name", "date_of_visit", "notes"}
        /\ sub[s].request.body.notes = <<"n">>

\* the ways an invocation of handleSubmit is over: it returned after a
\* validation failure or without a token, its stream closed or failed, or an
\* awaited promise (getToken, fileToBase64) rejected
Over == {"empty", "tooLarge", "unauthenticated", "closed", "error", "threw"}

\* C13: once a submission is over, whatever its outcome, loading is false.
C13_LoadingReset ==
    \A s \in SubIds : sub[s].pc \in Over => ~loading

\* the invocations whose connection is open
InFlight == {s \in SubIds : Streaming(s)}

\* C14: at most one submission has a stream in flight; a submission starts
\* only while loading is false; and the chunks shown come from one submission
\* after the other: no chunk of an earlier submission follows a chunk of a
\* later one.
C14_OneStreamInFlight ==
    /\ [][\A s \in SubIds : Submits(s) => ~loading]_vars
    /\ [](Cardinality(InFlight) <= 1)
    /\ [](\A i, j \in 1..Len(delivered) :
             i < j => delivered[i].sub <= delivered[j].sub)

\* C15: in every step each entry of the history stays as it is, at its place
\* or one place further down when a new entry is put at the head, and an entry
\* is dropped only as the last of 50; a step that changes the output and is
\* not a step of a submission (a click on a past summary) shows the summary of
\* an entry and changes nothing else.
C15_EntriesImmutable ==
    /\ [][\E d \in {0, 1} :
            /\ \A i \in 1..Len(history) :
                  i + d <= Len(history') => history'[i + d] = history[i]
            /\ Len(history') = Min(Len(history) + d, MAX_HISTORY)]_vars
    /\ [][(output' # output /\ sub' = sub) =>
            /\ \E i \in 1..Len(history) : output' = history[i].summary
            /\ UNCHANGED <<hasWindow, localStorage, form, fileError, loading,
                           history, sent, delivered, nextId, now>>]_vars

\* a close has put its entry at the head of 50, dropping the last, and the
\* summary of the entry below it, a different text, has been clicked
C15_Witness ==
    \E s \in SubIds :
        /\ sub[s].pc = "closed"
        /\ Len(sub[s].wrote) = 1
        /\ Len(history) = MAX_HISTORY
        /\ history[1].id = sub[s].wrote[1]
        /\ history[2] = StoredEntry(1)
        /\ history[MAX_HISTORY] = StoredEntry(49)
        /\ output = history[2].summary
        /\ output # history[1].summary

====
